---- MODULE Spec2Model ----
(***************************************************************************)
(* Model of github_tools (src/github_tools/__init__.py).                   *)
(*                                                                         *)
(* Three command line programs of the package are modelled, one run of a   *)
(* behaviour being one of them (variable prog):                            *)
(*   "pr_checker"  get_reviews / send_email / main                         *)
(*   "assign_pr"   _get_credentials / assign_pr                            *)
(*   "pr_session"  GHPRSession (request, post_comment, get_diff) and       *)
(*                 is_changed_diff_line                                    *)
(* Text is modelled as sequences of one-character strings, so that         *)
(* str.startswith, str.rstrip, str.replace, urljoin and splitlines are     *)
(* computed rather than assumed.                                           *)
(***************************************************************************)
EXTENDS Integers, Sequences, FiniteSets, TLC

VARIABLES
    prog,         \* which program this run is
    envToken,     \* os.environ["GH_TOKEN"], "" when unset or empty
    \* ---- pr_checker
    token,        \* the token argument
    name_filter,  \* the name_filter argument
    pr_age,       \* the pr_age argument (seconds)
    teamRepos,    \* GitHub: team index -> repositories the team owns
    pulls,        \* GitHub: the pull requests, by number
    pc,           \* position of main / get_reviews
    repos,        \* get_reviews' local `repos`
    enumerated,   \* repository -> number of times repo.pull_requests() ran
    reviews,      \* get_reviews' local `reviews` (login -> set of pairs)
    failure,      \* what aborted the run, "none" while nothing has
    apiCalls,     \* GitHub API calls made so far by the run
    notified,     \* logins send_email has been invoked for
    mails,        \* the emails handed to the SMTP relay, in order
    \* ---- assign_pr
    assignees,    \* GitHub: the assignee logins of the issue
    last,         \* the last assign_pr call: arguments and outcome
    \* ---- pr_session
    session,      \* "none", "ready" or "failed" (constructor raised)
    base_url,     \* GHPRSession.base_url, NoUrl while unset
    issue_url,    \* GitHub: the issue_url of the pull request, as returned
    diffOutput,   \* what `git diff` prints in the local checkout
    op            \* the last session operation: requests issued and outcome

checkerVars == <<token, name_filter, pr_age, teamRepos, pulls, pc, repos,
                 enumerated, reviews, failure, apiCalls, notified, mails>>
assignVars  == <<assignees, last>>
sessionVars == <<session, base_url, issue_url, diffOutput, op>>
vars == <<prog, envToken, checkerVars, assignVars, sessionVars>>

(***************************************************************************)
(* Bounds of the model.                                                    *)
(***************************************************************************)
MaxPulls == 2      \* pull requests in the organization
MaxCalls == 3      \* assign_pr calls in a row on one PR
MaxSlashes == 2    \* trailing slashes on the issue_url the API returns
MaxDiffLen == 3    \* characters of `git diff` output

(***************************************************************************)
(* Program constants.                                                      *)
(***************************************************************************)
PULL_WAIT == 20 * 60 * 60

(***************************************************************************)
(* Text helpers.                                                           *)
(***************************************************************************)
\* str.startswith(prefix)
StartsWith(s, prefix) ==
    /\ Len(prefix) <= Len(s)
    /\ SubSeq(s, 1, Len(prefix)) = prefix

Range(f) == {f[x] : x \in DOMAIN f}

EmptyMap == [x \in {} |-> {}]

(***************************************************************************)
(* The GitHub organization seen by pr_checker.                             *)
(***************************************************************************)
Logins == {"alice", "bob"}
Repos == {"widgets", "gadgets"}
RepoList == <<"widgets", "gadgets">>
\* org.teams(), in the order the API lists them
TeamList == << <<"q", "e">>, <<"q", "a">>, <<"d", "e", "v">> >>
Teams == DOMAIN TeamList
Filters == { <<>>, <<"q">>, <<"q", "e">>, <<"d">> }
Ages == {PULL_WAIT, 100000}
Tokens == {"", "tok"}
EnvTokens == {"", "envtok"}

PullNumbers == 1..MaxPulls
PullRequest == [repo : Repos, state : {"open", "closed"}, title : {"Fix bug"},
                user : Logins, assignees : SUBSET Logins, age : Ages]

\* pull.html_url
HtmlUrl(p, n) == <<p.repo, "pull", n>>

DefaultOwnership ==
    [t \in Teams |-> IF t = 1 THEN {"widgets"}
                     ELSE IF t = 2 THEN {"widgets", "gadgets"}
                     ELSE {}]

\* Every pull request attribute varies; each repository belongs to a team.
AttributeWorld ==
    /\ token = "tok" /\ envToken = ""
    /\ teamRepos = DefaultOwnership
    /\ name_filter = <<>>
    /\ pr_age \in Ages
    /\ pulls \in {f \in [PullNumbers -> PullRequest] :
                     \A n \in PullNumbers :
                        f[n].repo = RepoList[((n - 1) % Len(RepoList)) + 1]}

\* Team ownership and the filter vary; every pull request is stale and
\* assigned to a reviewer.
OwnershipWorld ==
    /\ token = "tok" /\ envToken = ""
    /\ teamRepos \in [Teams -> SUBSET Repos]
    /\ name_filter \in Filters
    /\ pr_age = PULL_WAIT
    /\ pulls \in {f \in [PullNumbers -> PullRequest] :
                     \A n \in PullNumbers :
                        /\ f[n].state = "open"
                        /\ f[n].user = "alice"
                        /\ f[n].assignees = {"bob"}
                        /\ f[n].age = 100000}

\* The token argument and the environment vary; one stale pull request.
CredentialWorld ==
    /\ token \in Tokens /\ envToken \in EnvTokens
    /\ teamRepos = DefaultOwnership
    /\ name_filter = <<>>
    /\ pr_age = PULL_WAIT
    /\ pulls = [n \in PullNumbers |->
                   [repo |-> "widgets", state |-> IF n = 1 THEN "open" ELSE "closed",
                    title |-> "Fix bug", user |-> "alice", assignees |-> {"bob"},
                    age |-> 100000]]

(***************************************************************************)
(* get_reviews                                                             *)
(***************************************************************************)
\* mutant: the filter of line 67 is dropped
RECURSIVE CollectReposUnfiltered(_, _, _)
CollectReposUnfiltered(acc, t, prefix) ==
    IF t > Len(TeamList) THEN acc
    ELSE CollectReposUnfiltered(acc \cup teamRepos[t], t + 1, prefix)

\* lines 66-68: repos.update(team.repositories()) for every kept team
RECURSIVE CollectRepos(_, _, _)
CollectRepos(acc, t, prefix) ==
    IF t > Len(TeamList) THEN acc
    ELSE CollectRepos(IF StartsWith(TeamList[t], prefix)
                         THEN acc \cup teamRepos[t] ELSE acc,
                      t + 1, prefix)

\* the number of teams whose repositories are listed
KeptTeams(prefix) == {t \in Teams : StartsWith(TeamList[t], prefix)}

\* mutant: the entry is replaced instead of added to
AddReviewOverwrite(revs, login, pair) ==
    [l \in DOMAIN revs \cup {login} |-> IF l = login THEN {pair} ELSE revs[l]]

\* reviews[assignee].add(pair) on a defaultdict(set)
AddReview(revs, login, pair) ==
    IF login \in DOMAIN revs
        THEN [revs EXCEPT ![login] = @ \cup {pair}]
        ELSE [l \in DOMAIN revs \cup {login} |->
                 IF l = login THEN {pair} ELSE revs[l]]

\* lines 79-80: for assignee in assignees
RECURSIVE AddForAll(_, _, _)
AddForAll(revs, logins, pair) ==
    IF logins = {} THEN revs
    ELSE LET l == CHOOSE x \in logins : TRUE
         IN  AddForAll(AddReview(revs, l, pair), logins \ {l}, pair)

\* mutant: >= for >
NeedsReviewAtThreshold(p, age) == {p.user} /= p.assignees /\ p.age >= age

\* mutant: a pull request whose author is among the assignees is skipped
NeedsReviewAuthorUnassigned(p, age) == p.user \notin p.assignees /\ p.age > age

\* line 78: the test that lets a pull request into the map
NeedsReview(p, age) == {p.user} /= p.assignees /\ p.age > age

\* lines 70-80 for one pull request
ProcessPull(revs, n) ==
    LET p == pulls[n] IN
    IF p.state /= "open" THEN revs
    ELSE IF p.assignees = {} THEN revs
    ELSE IF NeedsReview(p, pr_age)
        THEN AddForAll(revs, p.assignees, <<p.title, HtmlUrl(p, n)>>)
        ELSE revs

\* lines 70-80 for the pull requests n..MaxPulls of repository r
RECURSIVE ProcessPulls(_, _, _)
ProcessPulls(revs, r, n) ==
    IF n > MaxPulls THEN revs
    ELSE ProcessPulls(IF pulls[n].repo = r THEN ProcessPull(revs, n) ELSE revs,
                      r, n + 1)

\* line 64-65: enterprise_login gives None for a missing token, and
\* gh.organization then raises before anything is sent
Login ==
    /\ prog = "pr_checker" /\ pc = "start"
    /\ IF token = ""
          THEN /\ pc' = "failed" /\ failure' = "login"
               /\ UNCHANGED apiCalls
          ELSE /\ pc' = "teams"
               /\ apiCalls' = apiCalls + 1
               /\ UNCHANGED failure
    /\ UNCHANGED <<prog, envToken, token, name_filter, pr_age, teamRepos, pulls,
                   repos, enumerated, reviews, notified, mails,
                   assignVars, sessionVars>>

\* lines 66-68
CollectTeams ==
    /\ prog = "pr_checker" /\ pc = "teams"
    /\ repos' = CollectRepos({}, 1, name_filter)
    /\ apiCalls' = apiCalls + 1 + Cardinality(KeptTeams(name_filter))
    /\ pc' = "repos"
    /\ UNCHANGED <<prog, envToken, token, name_filter, pr_age, teamRepos, pulls,
                   enumerated, reviews, failure, notified, mails,
                   assignVars, sessionVars>>

\* lines 69-80, one iteration of `for repo in repos`
EnumerateRepo(r) ==
    /\ prog = "pr_checker" /\ pc = "repos"
    /\ r \in repos /\ enumerated[r] = 0
    /\ enumerated' = [enumerated EXCEPT ![r] = @ + 1]
    /\ reviews' = ProcessPulls(reviews, r, 1)
    /\ apiCalls' = apiCalls + 1
    /\ UNCHANGED <<prog, envToken, token, name_filter, pr_age, teamRepos, pulls,
                   pc, repos, failure, notified, mails,
                   assignVars, sessionVars>>

\* line 81
ReturnReviews ==
    /\ prog = "pr_checker" /\ pc = "repos"
    /\ \A r \in repos : enumerated[r] > 0
    /\ pc' = "returned"
    /\ UNCHANGED <<prog, envToken, token, name_filter, pr_age, teamRepos, pulls,
                   repos, enumerated, reviews, failure, apiCalls, notified,
                   mails, assignVars, sessionVars>>

\* an API call of lines 65-70 raises: nothing in get_reviews or main catches
ApiError ==
    /\ prog = "pr_checker"
    /\ \/ pc = "start" /\ token /= ""
       \/ pc \in {"teams", "repos"}
    /\ pc' = "failed" /\ failure' = "api"
    /\ apiCalls' = apiCalls + 1
    /\ UNCHANGED <<prog, envToken, token, name_filter, pr_age, teamRepos, pulls,
                   repos, enumerated, reviews, notified, mails,
                   assignVars, sessionVars>>

(***************************************************************************)
(* send_email and main                                                     *)
(***************************************************************************)
\* How one send_email call can end:
\*   "ok"            the mail is handed over and the call returns
\*   "lookup_error"  requests.get of the directory raises (line 97)
\*   "no_match"      no line of the directory answer matches, to_address is
\*                   unbound at line 115
\*   "smtp_error"    smtplib.SMTP(...) raises (line 114)
\*   "send_error"    s.sendmail raises (line 115)
\*   "quit_error"    s.quit() raises after the mail went out (line 116)
Outcomes == {"ok", "lookup_error", "no_match", "smtp_error", "send_error",
             "quit_error"}
Delivered(outcome) == outcome \in {"ok", "quit_error"}

\* mutant: a failed send is swallowed and the loop goes on
AfterSendGoOn(outcome) == "returned"

\* what the loop of main does after a send_email call that ended `outcome`
AfterSend(outcome) == IF outcome = "ok" THEN "returned" ELSE "failed"

\* the review_list main hands to send_email for `user`
ReviewList(user) == reviews[user]

\* lines 190-193, one iteration of the loop of main
SendEmail(user, outcome) ==
    /\ prog = "pr_checker" /\ pc = "returned"
    /\ user \in DOMAIN reviews /\ user \notin notified
    /\ notified' = notified \cup {user}
    /\ mails' = IF Delivered(outcome)
                   THEN Append(mails, [to |-> user,
                                       review_list |-> ReviewList(user)])
                   ELSE mails
    /\ pc' = AfterSend(outcome)
    /\ failure' = IF outcome = "ok" THEN failure ELSE "notify"
    /\ UNCHANGED <<prog, envToken, token, name_filter, pr_age, teamRepos, pulls,
                   repos, enumerated, reviews, apiCalls,
                   assignVars, sessionVars>>

\* the loop of main is exhausted
Finish ==
    /\ prog = "pr_checker" /\ pc = "returned"
    /\ notified = DOMAIN reviews
    /\ pc' = "done"
    /\ UNCHANGED <<prog, envToken, token, name_filter, pr_age, teamRepos, pulls,
                   repos, enumerated, reviews, failure, apiCalls, notified,
                   mails, assignVars, sessionVars>>

(***************************************************************************)
(* _get_credentials and assign_pr                                          *)
(***************************************************************************)
\* mutant: the environment wins over the argument
ResolveTokenEnvFirst(tok) == IF envToken /= "" THEN envToken ELSE tok

\* line 120: token or os.getenv(GH_TOKEN_ENV_KEY, None); "" is no token
ResolveToken(tok) == IF tok /= "" THEN tok ELSE envToken

\* line 121: the assertion of _get_credentials holds
HasCredentials(tok) == ResolveToken(tok) /= ""

\* mutant: keep_current is ignored
NewAssigneesKeepAll(current, users, keep_current) == current \cup users

\* lines 142-143: the assignee list pr.edit sends
NewAssignees(current, users, keep_current) ==
    (IF keep_current THEN current ELSE {}) \cup users

NoCall == [n |-> 0, users |-> {}, token |-> "", keep_current |-> TRUE,
           before |-> {}, failure |-> "none", apiCalls |-> 0, creds |-> ""]

\* lines 138-143, one call; apiOk: no GitHub call of the run raises
AssignPr(users, tok, keep_current, apiOk) ==
    /\ prog = "assign_pr" /\ last.n < MaxCalls
    /\ LET call == [n |-> last.n + 1, users |-> users, token |-> tok,
                    keep_current |-> keep_current, before |-> assignees,
                    failure |-> "none", apiCalls |-> 0, creds |-> ""]
       IN  IF ~HasCredentials(tok)
              THEN /\ last' = [call EXCEPT !.failure = "credentials"]
                   /\ UNCHANGED assignees
           ELSE IF ~apiOk
              THEN /\ last' = [call EXCEPT !.failure = "api", !.apiCalls = 1,
                                           !.creds = ResolveToken(tok)]
                   /\ UNCHANGED assignees
           ELSE /\ last' = [call EXCEPT !.apiCalls = 3,
                                        !.creds = ResolveToken(tok)]
                /\ assignees' = NewAssignees(assignees, users, keep_current)
    /\ UNCHANGED <<prog, envToken, checkerVars, sessionVars>>

(***************************************************************************)
(* URLs: a sequence of strings, the origin first when the URL is absolute, *)
(* then the segments between the slashes of the path ("" after a trailing  *)
(* slash).                                                                 *)
(***************************************************************************)
Origin == "https://github.example"
NoUrl == <<>>
RepoName == "org/repo"
PullId == "7"
IssueNumbers == {"7"}

\* "https://{}/api/v3/repos/{}/<kind>/{}".format(domain, repo, id)
ApiUrl(kind, id) == <<Origin, "api", "v3", "repos", RepoName, kind, id>>

IsAbsolute(url) == Len(url) > 0 /\ url[1] = Origin

\* str.rstrip("/")
RECURSIVE RStripSlash(_)
RStripSlash(url) ==
    IF Len(url) > 1 /\ url[Len(url)] = ""
        THEN RStripSlash(SubSeq(url, 1, Len(url) - 1))
        ELSE url

\* mutant: the slash is added without the rstrip
NormalizeBaseNoStrip(url) == Append(url, "")

\* line 306: ensure a single trailing slash
NormalizeBase(url) == Append(RStripSlash(url), "")

\* urllib.parse.urljoin(base, url)
UrlJoin(base, url) ==
    IF base = NoUrl THEN url
    ELSE IF url = NoUrl THEN base
    ELSE IF IsAbsolute(url) THEN url
    ELSE IF Len(base) = 1 THEN base \o url
    ELSE SubSeq(base, 1, Len(base) - 1) \o url

RECURSIVE Slashes(_)
Slashes(k) == IF k = 0 THEN <<>> ELSE Append(Slashes(k - 1), "")

(***************************************************************************)
(* Diff text: a sequence of characters.                                    *)
(***************************************************************************)
LF == "\n"
BSL == "\\"
DiffChars == {"+", "-", "n", BSL, LF}

RECURSIVE TextsOfLen(_)
TextsOfLen(k) ==
    IF k = 0 THEN {<<>>}
    ELSE {Append(t, c) : t \in TextsOfLen(k - 1), c \in DiffChars}

Texts == UNION {TextsOfLen(k) : k \in 0..MaxDiffLen}

\* mutant: the file header lines are left out
is_changed_content_line(line) ==
    /\ StartsWith(line, <<"+">>) \/ StartsWith(line, <<"-">>)
    /\ ~StartsWith(line, <<"+", "+", "+">>)
    /\ ~StartsWith(line, <<"-", "-", "-">>)

\* lines 267-281
is_changed_diff_line(line) ==
    StartsWith(line, <<"+">>) \/ StartsWith(line, <<"-">>)

\* line 351: diff.replace("\\n", "\n")
RECURSIVE ReplaceEscapedNewlines(_)
ReplaceEscapedNewlines(text) ==
    IF text = <<>> THEN <<>>
    ELSE IF Len(text) >= 2 /\ text[1] = BSL /\ text[2] = "n"
        THEN <<LF>> \o ReplaceEscapedNewlines(SubSeq(text, 3, Len(text)))
        ELSE <<text[1]>> \o ReplaceEscapedNewlines(Tail(text))

\* the lines of a text, split at the newlines
RECURSIVE SplitLines(_, _)
SplitLines(text, line) ==
    IF text = <<>> THEN <<line>>
    ELSE IF Head(text) = LF THEN <<line>> \o SplitLines(Tail(text), <<>>)
    ELSE SplitLines(Tail(text), Append(line, Head(text)))

RECURSIVE JoinLines(_)
JoinLines(lines) ==
    IF lines = <<>> THEN <<>>
    ELSE IF Len(lines) = 1 THEN lines[1]
    ELSE lines[1] \o <<LF>> \o JoinLines(Tail(lines))

\* the test get_diff filters the lines with (line 355)
KeepLine(line) == is_changed_diff_line(line)

\* qecommon_tools.filter_lines(is_changed_diff_line, diff)
FilterLines(text) ==
    JoinLines(SelectSeq(SplitLines(text, <<>>), KeepLine))

\* lines 350-357
DiffResult(output, only_changed_lines) ==
    LET diff == ReplaceEscapedNewlines(output)
    IN  IF only_changed_lines THEN FilterLines(diff) ELSE diff

(***************************************************************************)
(* GHPRSession                                                             *)
(***************************************************************************)
Statuses == {200, 201, 304, 404}

\* mutant: only server errors raise
RaisesForServerError(status) == 500 <= status /\ status < 600

\* requests' Response.raise_for_status (line 312)
RaisesForStatus(status) == 400 <= status /\ status < 600

\* http_helpers.validate_response_status_code(200, response) (line 338)
ValidStatus(status) == status = 200

\* lines 310-311: the request that goes out
Sent(method, url, status) ==
    [method |-> method, arg |-> url, url |-> UrlJoin(base_url, url),
     status |-> status]

NoOp == [name |-> "none", requests |-> <<>>, raised |-> FALSE,
         ranDiff |-> FALSE, output |-> <<>>, only_changed_lines |-> FALSE,
         result |-> <<>>]

\* lines 289-306; hasPull: the body of the answer is the pull request's JSON
\* (as it is with a 200; an answer outside 2xx carries no pull request, and
\* .json() or .get("issue_url").rstrip then raises)
Construct(status, number, k, hasPull) ==
    /\ prog = "pr_session" /\ session = "none"
    /\ issue_url' = ApiUrl("issues", number) \o Slashes(k)
    /\ LET req == Sent("GET", ApiUrl("pulls", PullId), status)
           ok == /\ ~RaisesForStatus(status)
                 /\ status = 200 \/ (hasPull /\ status \in 200..299)
       IN  /\ op' = [NoOp EXCEPT !.name = "init", !.requests = <<req>>,
                                 !.raised = ~ok]
           /\ session' = IF ok THEN "ready" ELSE "failed"
           /\ base_url' = IF ok THEN NormalizeBase(issue_url') ELSE base_url
    /\ UNCHANGED <<prog, envToken, diffOutput, checkerVars, assignVars>>

\* lines 308-313, called by the user of the session
Request(method, url, status) ==
    /\ prog = "pr_session" /\ session = "ready"
    /\ op' = [NoOp EXCEPT !.name = "request",
                          !.requests = <<Sent(method, url, status)>>,
                          !.raised = RaisesForStatus(status)]
    /\ UNCHANGED <<prog, envToken, session, base_url, issue_url, diffOutput,
                   checkerVars, assignVars>>

\* lines 315-317
PostComment(status) ==
    /\ prog = "pr_session" /\ session = "ready"
    /\ op' = [NoOp EXCEPT !.name = "post_comment",
                          !.requests = <<Sent("POST", <<"comments">>, status)>>,
                          !.raised = RaisesForStatus(status)]
    /\ UNCHANGED <<prog, envToken, session, base_url, issue_url, diffOutput,
                   checkerVars, assignVars>>

\* lines 333-357; exitOk: `git diff` exits 0
GetDiff(status, exitOk, only_changed_lines) ==
    /\ prog = "pr_session" /\ session = "ready"
    /\ LET req == Sent("GET", ApiUrl("branches", "master"), status)
           call == [NoOp EXCEPT !.name = "get_diff", !.requests = <<req>>,
                                !.only_changed_lines = only_changed_lines]
       IN  IF RaisesForStatus(status) \/ ~ValidStatus(status)
              THEN op' = [call EXCEPT !.raised = TRUE]
           ELSE IF ~exitOk
              THEN op' = [call EXCEPT !.raised = TRUE, !.ranDiff = TRUE]
           ELSE op' = [call EXCEPT !.ranDiff = TRUE, !.output = diffOutput,
                          !.result = DiffResult(diffOutput, only_changed_lines)]
    /\ UNCHANGED <<prog, envToken, session, base_url, issue_url, diffOutput,
                   checkerVars, assignVars>>

(***************************************************************************)
(* The specification                                                       *)
(***************************************************************************)
CheckerIdle ==
    /\ token = "" /\ name_filter = <<>> /\ pr_age = PULL_WAIT
    /\ teamRepos = DefaultOwnership
    /\ pulls = [n \in PullNumbers |->
                   [repo |-> "widgets", state |-> "closed", title |-> "Fix bug",
                    user |-> "alice", assignees |-> {}, age |-> PULL_WAIT]]

Init ==
    /\ prog \in {"pr_checker", "assign_pr", "pr_session"}
    /\ IF prog = "pr_checker"
          THEN AttributeWorld \/ OwnershipWorld \/ CredentialWorld
          ELSE envToken \in EnvTokens /\ CheckerIdle
    /\ pc = "start"
    /\ repos = {}
    /\ enumerated = [r \in Repos |-> 0]
    /\ reviews = EmptyMap
    /\ failure = "none"
    /\ apiCalls = 0
    /\ notified = {}
    /\ mails = <<>>
    /\ assignees \in (IF prog = "assign_pr" THEN SUBSET Logins ELSE {{}})
    /\ last = NoCall
    /\ session = "none"
    /\ base_url = NoUrl
    /\ issue_url = NoUrl
    /\ diffOutput \in (IF prog = "pr_session" THEN Texts ELSE {<<>>})
    /\ op = NoOp

Next ==
    \/ Login
    \/ CollectTeams
    \/ \E r \in Repos : EnumerateRepo(r)
    \/ ReturnReviews
    \/ ApiError
    \/ \E user \in Logins, outcome \in Outcomes : SendEmail(user, outcome)
    \/ Finish
    \/ \E users \in SUBSET Logins, tok \in Tokens, keep \in BOOLEAN,
          apiOk \in BOOLEAN : AssignPr(users, tok, keep, apiOk)
    \/ \E status \in Statuses, number \in IssueNumbers, k \in 0..MaxSlashes,
          hasPull \in BOOLEAN : Construct(status, number, k, hasPull)
    \/ \E method \in {"GET"},
          url \in {<<"labels">>, ApiUrl("pulls", PullId)},
          status \in Statuses : Request(method, url, status)
    \/ \E status \in Statuses : PostComment(status)
    \/ \E status \in Statuses, exitOk \in BOOLEAN, only \in BOOLEAN :
          GetDiff(status, exitOk, only)

Spec == Init /\ [][Next]_vars

(***************************************************************************)
(* Vocabulary of the properties, stated on the data and not through the    *)
(* operators above.                                                        *)
(***************************************************************************)
\* get_reviews has returned its map (main may have gone on from there)
Returned == pc \in {"returned", "done"} \/ failure = "notify"

\* the (title, url) pair of pull request n
PairOf(n) == <<pulls[n].title, <<pulls[n].repo, "pull", n>>>>

Open(n) == pulls[n].state = "open"
Assigned(n) == pulls[n].assignees /= {}
SelfAssigned(n) == pulls[n].assignees = {pulls[n].user}
Stale(n) == pulls[n].age > pr_age

\* team t is kept by the name filter
Matches(t) ==
    /\ Len(name_filter) <= Len(TeamList[t])
    /\ \A i \in 1..Len(name_filter) : TeamList[t][i] = name_filter[i]

\* repository r is owned by a kept team
Collected(r) == \E t \in Teams : Matches(t) /\ r \in teamRepos[t]

\* pull request n is to be reported to its assignees
Due(n) ==
    Open(n) /\ Collected(pulls[n].repo) /\ Assigned(n) /\ ~SelfAssigned(n)
    /\ Stale(n)

\* the pairs login l is to be told about
DueFor(l) == {PairOf(n) : n \in {m \in PullNumbers : Due(m) /\ l \in pulls[m].assignees}}

\* the text has no lines when empty, else what lies between its newlines
LinesOf(text) == IF text = <<>> THEN {} ELSE Range(SplitLines(text, <<>>))

FirstIsPlusOrMinus(line) == Len(line) >= 1 /\ line[1] \in {"+", "-"}

(***************************************************************************)
(* Properties                                                              *)
(***************************************************************************)

C2_AsStated ==
    (prog = "pr_checker" /\ Returned) =>
        \A n \in PullNumbers :
            (/\ Cardinality(pulls[n].assignees) = 2
             /\ pulls[n].user \in pulls[n].assignees
             /\ Open(n) /\ Collected(pulls[n].repo)) =>
                \A l \in pulls[n].assignees :
                    l \in DOMAIN reviews /\ PairOf(n) \in reviews[l]

\* C2 amended: an open pull request of a collected repository, older than
\* pr_age, with two assignees, one of them its author, is in the entries
\* of both once get_reviews has returned.
C2_BothAssignees ==
    (prog = "pr_checker" /\ Returned) =>
        \A n \in PullNumbers :
            (/\ Cardinality(pulls[n].assignees) = 2
             /\ pulls[n].user \in pulls[n].assignees
             /\ Open(n) /\ Collected(pulls[n].repo) /\ Stale(n)) =>
                \A l \in pulls[n].assignees :
                    l \in DOMAIN reviews /\ PairOf(n) \in reviews[l]

\* C2 witness: such a pull request was collected.
C2_Witness ==
    /\ prog = "pr_checker" /\ pc = "returned"
    /\ \E n \in PullNumbers :
          /\ pulls[n].assignees = {"alice", "bob"} /\ pulls[n].user = "alice"
          /\ Open(n) /\ Collected(pulls[n].repo) /\ Stale(n)
          /\ PairOf(n) \in reviews["alice"] /\ PairOf(n) \in reviews["bob"]

\* C3: once get_reviews has returned, the keys of the map are the logins
\* assigned to some due pull request, and each key holds the pairs of all
\* the due pull requests of that login, from every repository.
C3_MapIsAggregate ==
    (prog = "pr_checker" /\ Returned) =>
        /\ DOMAIN reviews = {l \in Logins : DueFor(l) /= {}}
        /\ \A l \in DOMAIN reviews : reviews[l] = DueFor(l)

\* C3 witness: the example of the specification (one open pull request
\* "Fix bug" by alice, assigned to bob, 100000 s old, threshold 72000 s).
C3_Witness ==
    /\ prog = "pr_checker" /\ pc = "returned"
    /\ pr_age = 72000
    /\ \E n \in PullNumbers :
          /\ \A m \in PullNumbers : Open(m) <=> m = n
          /\ pulls[n].title = "Fix bug" /\ pulls[n].user = "alice"
          /\ pulls[n].assignees = {"bob"} /\ pulls[n].age = 100000
          /\ DOMAIN reviews = {"bob"}
          /\ reviews["bob"] = {PairOf(n)}

\* C4: the repositories collected are those owned by a team whose name
\* starts with name_filter; each is enumerated once and no other is
\* enumerated; no pull request of another repository is in the map.
C4_OnlyKeptTeams ==
    prog = "pr_checker" =>
        /\ pc \in {"repos", "returned", "done"} =>
              repos = {r \in Repos : Collected(r)}
        /\ \A r \in Repos : enumerated[r] <= (IF Collected(r) THEN 1 ELSE 0)
        /\ Returned => \A r \in Repos : Collected(r) => enumerated[r] = 1
        /\ \A l \in DOMAIN reviews : \A pair \in reviews[l] :
              Collected(pair[2][1])

\* C4 witness: with a filter given, one repository owned by two kept teams
\* was enumerated and another, owned only by a team the filter drops and
\* holding a pull request, was not.
C4_Witness ==
    /\ prog = "pr_checker" /\ pc = "returned"
    /\ name_filter /= <<>>
    /\ \E r, q \in Repos :
          /\ Cardinality({t \in Teams : Matches(t) /\ r \in teamRepos[t]}) = 2
          /\ enumerated[r] = 1
          /\ ~Collected(q) /\ \E t \in Teams : q \in teamRepos[t]
          /\ \E n \in PullNumbers : pulls[n].repo = q
          /\ enumerated[q] = 0

\* C5 as stated: in get_reviews the credentials resolve whenever a token
\* is supplied or one is in the environment.
C5_AsStated ==
    (prog = "pr_checker" /\ (token /= "" \/ envToken /= "")) =>
        failure /= "login"

\* C5 amended: _get_credentials, which assign_pr uses, fails before any API
\* call exactly when no token is supplied and none is in the environment,
\* and otherwise resolves to the supplied token if there is one, else to
\* the environment's; get_reviews never reads the environment: it fails
\* before any API call exactly when no token is supplied.
C5_Credentials ==
    /\ (prog = "assign_pr" /\ last.n > 0) =>
          /\ last.failure = "credentials" <=> (last.token = "" /\ envToken = "")
          /\ last.failure = "credentials" => last.apiCalls = 0
          /\ last.failure /= "credentials" =>
                last.creds = (IF last.token /= "" THEN last.token ELSE envToken)
    /\ (prog = "pr_checker" /\ pc /= "start") =>
          /\ failure = "login" <=> token = ""
          /\ failure = "login" => apiCalls = 0

\* C5 witness: get_reviews failed for want of a token although the
\* environment holds one.
C5_Witness ==
    /\ prog = "pr_checker" /\ failure = "login"
    /\ envToken = "envtok" /\ apiCalls = 0

C7_AsStated ==
    prog = "pr_session" =>
        \A i \in DOMAIN op.requests :
            ~(200 <= op.requests[i].status /\ op.requests[i].status <= 299)
                => op.raised

\* C7 amended: an operation issues its request once; if the status is 4xx
\* or 5xx (in get_diff: anything but 200) the operation raised, the diff
\* command did not run and a session under construction stays unusable.
C7_ErrorStatusRaises ==
    prog = "pr_session" =>
        /\ Len(op.requests) <= 1
        /\ \A i \in DOMAIN op.requests :
              LET status == op.requests[i].status IN
              /\ (400 <= status /\ status <= 599) =>
                    /\ op.raised /\ ~op.ranDiff
                    /\ op.name = "init" => session = "failed" /\ base_url = NoUrl
              /\ (op.name = "get_diff" /\ status /= 200) =>
                    op.raised /\ ~op.ranDiff

\* C7 witness: the branch lookup of get_diff got a 404.
C7_Witness ==
    /\ prog = "pr_session" /\ op.name = "get_diff"
    /\ Len(op.requests) = 1 /\ op.requests[1].status = 404
    /\ op.raised /\ ~op.ranDiff

\* C8, state part: a call that went through leaves previous assignees plus
\* users (keep_current) or exactly users (otherwise); a call that failed
\* changes nothing; a call without any token fails before any API call.
C8_State ==
    (prog = "assign_pr" /\ last.n > 0) =>
        /\ (last.failure = "none" /\ last.keep_current) =>
              /\ last.before \subseteq assignees
              /\ assignees = last.before \cup last.users
        /\ (last.failure = "none" /\ ~last.keep_current) =>
              assignees = last.users
        /\ last.failure /= "none" => assignees = last.before
        /\ (last.token = "" /\ envToken = "") =>
              last.failure = "credentials" /\ last.apiCalls = 0

\* C8, step part: repeating the call that just went through changes nothing.
C8_Repeat ==
    (/\ last.n > 0 /\ last.failure = "none"
     /\ last'.n = last.n + 1 /\ last'.failure = "none"
     /\ last'.users = last.users /\ last'.keep_current = last.keep_current)
        => assignees' = assignees

\* C8: after any sequence of assign_pr calls the assignees are as the last
\* call set them, and repeating a call is idempotent.
C8_AssignPr == []C8_State /\ [][C8_Repeat]_vars

\* C8 witness: a second call with keep_current false removed an assignee.
C8_Witness ==
    /\ prog = "assign_pr" /\ last.n >= 2
    /\ last.failure = "none" /\ ~last.keep_current
    /\ last.before \ last.users /= {}
    /\ assignees = last.users

\* C9: the constructor issues one GET, of the pull request's own URL;
\* base_url is the issue URL with exactly one trailing slash; a relative
\* URL is requested under the issue URL, an absolute one as given.
C9_State ==
    prog = "pr_session" =>
        /\ op.name = "init" =>
              /\ Len(op.requests) = 1
              /\ op.requests[1].method = "GET"
              /\ op.requests[1].url = ApiUrl("pulls", PullId)
        /\ session = "ready" =>
              \E number \in IssueNumbers, k \in 0..MaxSlashes :
                  /\ issue_url = ApiUrl("issues", number) \o Slashes(k)
                  /\ base_url = ApiUrl("issues", number) \o <<"">>
                  /\ op.name = "post_comment" =>
                        /\ op.requests[1].method = "POST"
                        /\ op.requests[1].url =
                              ApiUrl("issues", number) \o <<"comments">>
                  /\ op.name = "request" =>
                        op.requests[1].url =
                            IF op.requests[1].arg[1] = Origin
                               THEN op.requests[1].arg
                               ELSE ApiUrl("issues", number) \o op.requests[1].arg
        /\ session /= "ready" => base_url = NoUrl

\* C9: once set by the constructor, base_url never changes.
C9_Step == base_url /= NoUrl => base_url' = base_url

C9_BaseUrl == []C9_State /\ [][C9_Step]_vars

\* C9 witness: a comment was posted on a session whose issue URL came with
\* two trailing slashes.
C9_Witness ==
    /\ prog = "pr_session" /\ op.name = "post_comment" /\ ~op.raised
    /\ Len(issue_url) = Len(ApiUrl("issues", PullId)) + 2

\* C10, state part: no mail before get_reviews returned; one mail at most
\* per login, to a login of the map, listing all its due pull requests;
\* every login mailed when the run ends without failure; a failure ends
\* the run.
C10_State ==
    prog = "pr_checker" =>
        /\ pc \in {"start", "teams", "repos"} => mails = <<>> /\ notified = {}
        /\ \A i, j \in DOMAIN mails : mails[i].to = mails[j].to => i = j
        /\ \A i \in DOMAIN mails :
              /\ mails[i].to \in notified
              /\ mails[i].to \in DOMAIN reviews
              /\ mails[i].review_list = DueFor(mails[i].to)
        /\ notified \subseteq DOMAIN reviews
        /\ pc = "done" =>
              /\ failure = "none"
              /\ {mails[i].to : i \in DOMAIN mails} = DOMAIN reviews
        /\ failure /= "none" => pc = "failed"

\* C10, step part: nothing happens after a failure; send_email is invoked
\* for one new login at a time and sends one mail at most.
C10_Step ==
    /\ pc /= "failed"
    /\ notified' /= notified =>
          \E user \in Logins \ notified : notified' = notified \cup {user}
    /\ mails' /= mails =>
          /\ Len(mails') = Len(mails) + 1
          /\ notified' /= notified

C10_Main == []C10_State /\ [][C10_Step]_vars

\* C10 witness: with two logins in the map, the first send_email failed
\* and the run ended with the second login never notified.
C10_Witness ==
    /\ prog = "pr_checker" /\ pc = "failed" /\ failure = "notify"
    /\ Cardinality(DOMAIN reviews) = 2
    /\ Cardinality(notified) = 1
    /\ mails = <<>>

====
